---- MODULE Spec2Model ----
(***************************************************************************)
(* The tabular store of GraphQl.py: DynamicTable (a column_info list and a *)
(* list of row dicts) and Database (a dict of tables by name), with the    *)
(* row deletion that DeleteRowMutation performs on a table's row list.     *)
(* Spec is the store of one table under the calls of its methods,          *)
(* SpecShared the store of two tables, SpecMutation the store under the    *)
(* GraphQL mutations, which convert their text arguments first.            *)
(***************************************************************************)
EXTENDS Integers, Sequences, FiniteSets

\* ------------------------------------------------------------- bounds
\* MaxCols: the longest column_info list and the longest value list a caller
\* passes.  MaxRows: the longest row list add_row lets a table grow to.
MaxCols == 2
MaxRows == 2

\* ------------------------------------------------------------- inputs
TableNames == {"T1"}
\* The (column_name, column_type) pairs a caller declares; a type is one of
\* the Python classes str, int and bool.
Columns == {<<"a", "int">>, <<"b", "str">>, <<"b", "bool">>}
ColumnNames == {c[1] : c \in Columns}

\* Python values: the class of the object and its printed content.
PyStr(s) == [kind |-> "str", val |-> s]
PyInt(s) == [kind |-> "int", val |-> s]
PyBool(s) == [kind |-> "bool", val |-> s]
None == [kind |-> "NoneType", val |-> "None"]

\* The values a caller passes in a row: one of each class, the int and the
\* bool being equal as Python numbers.
Values == {PyStr("x"), PyInt("1"), PyBool("True")}

\* isinstance(value, column_type): bool is a subclass of int.
isinstance(value, column_type) ==
    \/ value.kind = column_type
    \/ value.kind = "bool" /\ column_type = "int"

\* The number an int or bool object stands for (True is 1, False is 0).
NumOf(v) == IF v.val \in {"1", "True"} THEN 1 ELSE 0

\* Python's == on two values, as set membership of tuples applies it:
\* numbers compare by value across int and bool, everything else by
\* class and content.
PyEq(v, w) ==
    IF v.kind \in {"int", "bool"} /\ w.kind \in {"int", "bool"}
    THEN NumOf(v) = NumOf(w)
    ELSE v = w

\* ------------------------------------------------------------- state
VARIABLES
    tables,   \* Database.tables: name -> [column_info, rows]
    shares,   \* the sets of tables whose column_info is one list object
    last      \* the last call: [op, table, result, ...]

vars == <<tables, shares, last>>

RECURSIVE SeqsUpTo(_, _)
SeqsUpTo(S, n) ==
    IF n = 0 THEN {<<>>}
    ELSE LET shorter == SeqsUpTo(S, n - 1)
         IN  shorter \cup {Append(s, x) : s \in {q \in shorter : Len(q) = n - 1}, x \in S}

\* The column_info lists a caller passes to add_table.
ColumnInfos == SeqsUpTo(Columns, MaxCols)
\* The value lists a caller passes to add_row and update_row.
ValueLists == SeqsUpTo(Values, MaxCols)
\* The row indexes a caller passes.
Indexes == (0 - 1) .. MaxRows

NoTable == "-"

\* [col[0] for col in self.column_info]
names(column_info) == [i \in 1 .. Len(column_info) |-> column_info[i][1]]

NameSet(column_info) == {column_info[i][1] : i \in 1 .. Len(column_info)}

\* DynamicTable.__init__ keeps the caller's list, it does not copy it: the
\* tables that hold the same list object as table t (t included).
ClassOf(t) == CHOOSE c \in shares : t \in c

\* tables after the list object of table t has become column_info: every
\* table holding that object sees the change; rows is the new row list of t.
WithTable(t, column_info, rows) ==
    [u \in DOMAIN tables |->
        IF u = t THEN [column_info |-> column_info, rows |-> rows]
        ELSE IF u \in ClassOf(t)
             THEN [column_info |-> column_info, rows |-> tables[u].rows]
             ELSE tables[u]]

\* The record of a call; repeated says that the call is a removeDuplicates
\* made right after a removeDuplicates on the same table.
Result(op, t, r) ==
    [op |-> op, table |-> t, result |-> r,
     repeated |-> (op = "removeDuplicates" /\ last.op = op /\ last.table = t),
     recreated |-> (/\ op = "createTable" /\ r = "ok"
                    /\ last.op = "dropTable" /\ last.result = "ok"
                    /\ last.table = t)]

\* Database.__init__: no table.  (The module then seeds one demonstration
\* table of four columns, which is wider than the schemas explored here.)
Init ==
    /\ tables = [t \in {} |-> 0]
    /\ shares = {}
    /\ last = [op |-> "init", table |-> NoTable, result |-> "ok", repeated |-> FALSE,
               recreated |-> FALSE]

\* ------------------------------------------------------------- Database

\* add_table without the check for a table of that name: the new table
\* takes the place of the old one.
add_table_replace(table_name, column_info, owner) ==
    /\ tables' = [u \in DOMAIN tables \cup {table_name} |->
                     IF u = table_name
                     THEN [column_info |-> column_info, rows |-> <<>>]
                     ELSE tables[u]]
    /\ shares' = (({c \ {table_name} : c \in shares}) \ {{}}) \cup {{table_name}}
    /\ last' = Result("createTable", table_name, "ok")

\* Database.add_table -> DynamicTable.__init__.  owner is the table that
\* already holds the list object passed as column_info, NoTable when the
\* caller passes a list no table holds.
add_table(table_name, column_info, owner) ==
    IF table_name \in DOMAIN tables
    THEN /\ last' = Result("createTable", table_name, "DuplicateTable")
         /\ UNCHANGED <<tables, shares>>
    ELSE /\ tables' = [u \in DOMAIN tables \cup {table_name} |->
                          IF u = table_name
                          THEN [column_info |-> column_info, rows |-> <<>>]
                          ELSE tables[u]]
         /\ shares' = IF owner = NoTable
                      THEN shares \cup {{table_name}}
                      ELSE (shares \ {ClassOf(owner)})
                               \cup {ClassOf(owner) \cup {table_name}}
         /\ last' = Result("createTable", table_name, "ok")

\* remove_table that reports the removal and keeps the table.
remove_table_keep(table_name) ==
    IF table_name \notin DOMAIN tables
    THEN /\ last' = Result("dropTable", table_name, "UnknownTable")
         /\ UNCHANGED <<tables, shares>>
    ELSE /\ last' = Result("dropTable", table_name, "ok")
         /\ UNCHANGED <<tables, shares>>

\* Database.remove_table
remove_table(table_name) ==
    IF table_name \notin DOMAIN tables
    THEN /\ last' = Result("dropTable", table_name, "UnknownTable")
         /\ UNCHANGED <<tables, shares>>
    ELSE /\ tables' = [u \in DOMAIN tables \ {table_name} |-> tables[u]]
         /\ shares' = {c \ {table_name} : c \in shares} \ {{}}
         /\ last' = Result("dropTable", table_name, "ok")

\* ------------------------------------------------------------- DynamicTable
\* A method of DynamicTable maps the table [column_info, rows] to its
\* outcome: the table it leaves and the error it raises, or "ok".
Outcome(column_info, rows, r) ==
    [column_info |-> column_info, rows |-> rows, result |-> r]

\* A raise that leaves the table as it is.  The results name the raise
\* sites: DuplicateTable, UnknownTable, DuplicateColumn, UnknownColumn,
\* ArityMismatch and TypeMismatch are the ValueErrors of lines 87, 93, 12,
\* 21, 31/49 and 38/55, IndexOutOfRange is IndexError, KeyError is the
\* KeyError of a dict that lacks the key.
Raise(tbl, r) == Outcome(tbl.column_info, tbl.rows, r)

\* row[column_name] = value: the dict with the key set (added or overwritten).
SetKey(row, k, v) == [x \in DOMAIN row \cup {k} |-> IF x = k THEN v ELSE row[x]]

\* del row[column_name], for a row that has the key.
DelKey(row, k) == [x \in DOMAIN row \ {k} |-> row[x]]

\* dict(zip(names, values)): of two equal names the later value stays.
ZipDict(ns, values) ==
    [k \in {ns[i] : i \in 1 .. Len(ns)} |->
        LET i == CHOOSE j \in 1 .. Len(ns) :
                    /\ ns[j] = k
                    /\ \A m \in 1 .. Len(ns) : ns[m] = k => m <= j
        IN  values[i]]

\* list.index(column_name): the first position holding the name.
IndexOf(ns, column_name) ==
    CHOOSE i \in 1 .. Len(ns) :
        /\ ns[i] = column_name
        /\ \A j \in 1 .. Len(ns) : ns[j] = column_name => i <= j

\* del list[index], index counted from 1.
DelAt(s, i) == [j \in 1 .. Len(s) - 1 |-> IF j < i THEN s[j] ELSE s[j + 1]]

\* add_column with the new entry put first in the schema.
add_column_first(tbl, column_name, column_type) ==
    IF column_name \in NameSet(tbl.column_info)
    THEN Raise(tbl, "DuplicateColumn")
    ELSE Outcome(<<<<column_name, column_type>>>> \o tbl.column_info,
                 [i \in 1 .. Len(tbl.rows) |-> SetKey(tbl.rows[i], column_name, None)],
                 "ok")

\* DynamicTable.add_column
add_column(tbl, column_name, column_type) ==
    IF column_name \in NameSet(tbl.column_info)
    THEN Raise(tbl, "DuplicateColumn")
    ELSE Outcome(Append(tbl.column_info, <<column_name, column_type>>),
                 [i \in 1 .. Len(tbl.rows) |-> SetKey(tbl.rows[i], column_name, None)],
                 "ok")

\* The rows after the loop `for row in self.rows: del row[column_name]`:
\* the loop stops with KeyError at the first row that lacks the key.
DelKeyLoop(rows, column_name) ==
    LET missing == {i \in 1 .. Len(rows) : column_name \notin DOMAIN rows[i]}
        stop == IF missing = {} THEN Len(rows) + 1
                ELSE CHOOSE i \in missing : \A j \in missing : i <= j
    IN  [i \in 1 .. Len(rows) |->
            IF i < stop THEN DelKey(rows[i], column_name) ELSE rows[i]]

\* DynamicTable.delete_column
delete_column(tbl, column_name) ==
    IF column_name \notin NameSet(tbl.column_info)
    THEN Raise(tbl, "UnknownColumn")
    ELSE LET index == IndexOf(names(tbl.column_info), column_name)
         IN  Outcome(DelAt(tbl.column_info, index),
                     DelKeyLoop(tbl.rows, column_name),
                     IF \A i \in 1 .. Len(tbl.rows) : column_name \in DOMAIN tbl.rows[i]
                     THEN "ok" ELSE "KeyError")

\* Validate with the length check written `<`: a list longer than the
\* schema passes.
ValidateShortOnly(column_info, values) ==
    IF Len(values) < Len(column_info) THEN "ArityMismatch"
    ELSE IF \E i \in 1 .. Len(column_info) :
                ~isinstance(values[i], column_info[i][2])
         THEN "TypeMismatch"
         ELSE "ok"

\* The checks add_row and update_row make before they build the row: the
\* error they raise, or "ok".
Validate(column_info, values) ==
    IF Len(values) # Len(column_info) THEN "ArityMismatch"
    ELSE IF \E i \in 1 .. Len(column_info) :
                ~isinstance(values[i], column_info[i][2])
         THEN "TypeMismatch"
         ELSE "ok"

\* DynamicTable.add_row
add_row(tbl, values) ==
    LET r == Validate(tbl.column_info, values) IN
    IF r # "ok" THEN Raise(tbl, r)
    ELSE Outcome(tbl.column_info,
                 Append(tbl.rows, ZipDict(names(tbl.column_info), values)),
                 "ok")

\* update_row that writes the new values over the row it finds, keeping the
\* keys of the old row that the schema does not name.
update_row_merge(tbl, row_index, values) ==
    IF row_index < 0 \/ row_index >= Len(tbl.rows)
    THEN Raise(tbl, "IndexOutOfRange")
    ELSE LET v == Validate(tbl.column_info, values)
             old == tbl.rows[row_index + 1]
             new == ZipDict(names(tbl.column_info), values)
         IN  IF v # "ok"
             THEN Raise(tbl, v)
             ELSE Outcome(tbl.column_info,
                          [tbl.rows EXCEPT ![row_index + 1] =
                              [k \in DOMAIN old \cup DOMAIN new |->
                                  IF k \in DOMAIN new THEN new[k] ELSE old[k]]],
                          "ok")

\* DynamicTable.update_row
update_row(tbl, row_index, values) ==
    IF row_index < 0 \/ row_index >= Len(tbl.rows)
    THEN Raise(tbl, "IndexOutOfRange")
    ELSE LET r == Validate(tbl.column_info, values) IN
         IF r # "ok" THEN Raise(tbl, r)
         ELSE Outcome(tbl.column_info,
                      [tbl.rows EXCEPT ![row_index + 1] =
                          ZipDict(names(tbl.column_info), values)],
                      "ok")

\* A row deletion that removes the last row whatever index is in range.
delete_row_last(tbl, row_index) ==
    LET n == Len(tbl.rows) IN
    IF row_index >= n \/ row_index < 0 - n
    THEN Raise(tbl, "IndexOutOfRange")
    ELSE Outcome(tbl.column_info, DelAt(tbl.rows, n), "ok")

\* del dynamic_table.rows[row_index] (DeleteRowMutation.mutate): a negative
\* index counts from the end of the list.
delete_row(tbl, row_index) ==
    LET n == Len(tbl.rows) IN
    IF row_index >= n \/ row_index < 0 - n
    THEN Raise(tbl, "IndexOutOfRange")
    ELSE Outcome(tbl.column_info,
                 DelAt(tbl.rows, IF row_index < 0 THEN n + row_index + 1
                                 ELSE row_index + 1),
                 "ok")

\* tuple(row[column] for column, _ in self.column_info)
key_values(row, column_info) ==
    [i \in 1 .. Len(column_info) |-> row[column_info[i][1]]]

\* Python's == on two tuples.
TupleEq(k1, k2) ==
    /\ Len(k1) = Len(k2)
    /\ \A i \in 1 .. Len(k1) : PyEq(k1[i], k2[i])

\* unique_rows with each kept row put at the front of the list.
RECURSIVE unique_rows_front(_, _, _, _)
unique_rows_front(rows, column_info, i, acc) ==
    IF i > Len(rows) THEN acc
    ELSE LET k == key_values(rows[i], column_info) IN
         IF \E j \in 1 .. Len(acc) : TupleEq(key_values(acc[j], column_info), k)
         THEN unique_rows_front(rows, column_info, i + 1, acc)
         ELSE unique_rows_front(rows, column_info, i + 1, <<rows[i]>> \o acc)

\* The loop of remove_duplicates from row i on; acc is unique_rows so far
\* (seen_rows holds the tuples of the rows of acc).
RECURSIVE unique_rows(_, _, _, _)
unique_rows(rows, column_info, i, acc) ==
    IF i > Len(rows) THEN acc
    ELSE LET k == key_values(rows[i], column_info) IN
         IF \E j \in 1 .. Len(acc) : TupleEq(key_values(acc[j], column_info), k)
         THEN unique_rows(rows, column_info, i + 1, acc)
         ELSE unique_rows(rows, column_info, i + 1, Append(acc, rows[i]))

\* DynamicTable.remove_duplicates: row[column] raises KeyError at a row
\* that lacks a column, before self.rows is assigned.
remove_duplicates(tbl) ==
    IF \E i \in 1 .. Len(tbl.rows) :
          ~(NameSet(tbl.column_info) \subseteq DOMAIN tbl.rows[i])
    THEN Raise(tbl, "KeyError")
    ELSE Outcome(tbl.column_info,
                 unique_rows(tbl.rows, tbl.column_info, 1, <<>>),
                 "ok")

\* ------------------------------------------------------------- calls
\* A call of a DynamicTable method on table t with outcome out.
Call(op, t, out) ==
    /\ tables' = WithTable(t, out.column_info, out.rows)
    /\ last' = Result(op, t, out.result)
    /\ UNCHANGED shares

createTable(t) ==
    \/ \E ci \in ColumnInfos : add_table(t, ci, NoTable)
    \/ \E u \in DOMAIN tables : add_table(t, tables[u].column_info, u)

dropTable(t) == remove_table(t)

addColumn(t) ==
    /\ t \in DOMAIN tables
    /\ \E c \in Columns : Call("addColumn", t, add_column(tables[t], c[1], c[2]))

removeColumn(t) ==
    /\ t \in DOMAIN tables
    /\ \E c \in ColumnNames : Call("removeColumn", t, delete_column(tables[t], c))

addRow(t) ==
    /\ t \in DOMAIN tables
    /\ Len(tables[t].rows) < MaxRows
    /\ \E values \in ValueLists : Call("addRow", t, add_row(tables[t], values))

updateRow(t) ==
    /\ t \in DOMAIN tables
    /\ \E i \in Indexes, values \in ValueLists :
          Call("updateRow", t, update_row(tables[t], i, values))

deleteRow(t) ==
    /\ t \in DOMAIN tables
    /\ \E i \in Indexes : Call("deleteRow", t, delete_row(tables[t], i))

removeDuplicates(t) ==
    /\ t \in DOMAIN tables
    /\ Call("removeDuplicates", t, remove_duplicates(tables[t]))

Next ==
    \E t \in TableNames :
        \/ createTable(t)
        \/ dropTable(t)
        \/ addColumn(t)
        \/ removeColumn(t)
        \/ addRow(t)
        \/ updateRow(t)
        \/ deleteRow(t)
        \/ removeDuplicates(t)

Spec == Init /\ [][Next]_vars

\* ---------------------------------------------------------------------
\* The store with two tables.  A caller of Database.add_table may pass the
\* list another table was created with; the calls below are those of Next
\* with inputs small enough for two names.

SharedNames == {"T1", "T2"}

SharedColumns == {<<"a", "int">>}

SharedColumnInfos == {<<>>, <<<<"a", "int">>>>}

SharedValueLists == {<<>>, <<PyInt("1")>>}

SharedIndexes == {0 - 1, 0}

SharedCreateTable(t) ==
    \/ \E ci \in SharedColumnInfos : add_table(t, ci, NoTable)
    \/ \E u \in DOMAIN tables \ {t} : add_table(t, tables[u].column_info, u)

SharedDropTable(t) == remove_table(t)

SharedAddColumn(t) ==
    /\ t \in DOMAIN tables
    /\ \E c \in SharedColumns : Call("addColumn", t, add_column(tables[t], c[1], c[2]))

SharedRemoveColumn(t) ==
    /\ t \in DOMAIN tables
    /\ \E c \in SharedColumns : Call("removeColumn", t, delete_column(tables[t], c[1]))

SharedAddRow(t) ==
    /\ t \in DOMAIN tables
    /\ tables[t].rows = <<>>
    /\ \E values \in SharedValueLists : Call("addRow", t, add_row(tables[t], values))

SharedUpdateRow(t) ==
    /\ t \in DOMAIN tables
    /\ \E i \in SharedIndexes, values \in SharedValueLists :
          Call("updateRow", t, update_row(tables[t], i, values))

SharedDeleteRow(t) ==
    /\ t \in DOMAIN tables
    /\ \E i \in SharedIndexes : Call("deleteRow", t, delete_row(tables[t], i))

SharedRemoveDuplicates(t) ==
    /\ t \in DOMAIN tables
    /\ Call("removeDuplicates", t, remove_duplicates(tables[t]))

NextShared ==
    \E t \in SharedNames :
        \/ SharedCreateTable(t)
        \/ SharedDropTable(t)
        \/ SharedAddColumn(t)
        \/ SharedRemoveColumn(t)
        \/ SharedAddRow(t)
        \/ SharedUpdateRow(t)
        \/ SharedDeleteRow(t)
        \/ SharedRemoveDuplicates(t)

SpecShared == Init /\ [][NextShared]_vars

\* ---------------------------------------------------------------------
\* The GraphQL mutations.  A String argument is a text, the sequence of its
\* characters; convert_values turns the texts of a row into Python values.

WhiteSpace == {" ", "\t"}

UpperCase ==
    <<"A", "B", "C", "D", "E", "F", "G", "H", "I", "J", "K", "L", "M",
      "N", "O", "P", "Q", "R", "S", "T", "U", "V", "W", "X", "Y", "Z">>

LowerCase ==
    <<"a", "b", "c", "d", "e", "f", "g", "h", "i", "j", "k", "l", "m",
      "n", "o", "p", "q", "r", "s", "t", "u", "v", "w", "x", "y", "z">>

Digits == <<"0", "1", "2", "3", "4", "5", "6", "7", "8", "9">>

\* str.lower(): every upper-case letter becomes its lower-case letter.
lower(value) ==
    [i \in 1 .. Len(value) |->
        IF \E j \in 1 .. Len(UpperCase) : UpperCase[j] = value[i]
        THEN LowerCase[CHOOSE j \in 1 .. Len(UpperCase) : UpperCase[j] = value[i]]
        ELSE value[i]]

\* str.strip(): the text without its leading and trailing whitespace.
strip(value) ==
    LET keep == {i \in 1 .. Len(value) : value[i] \notin WhiteSpace}
    IN  IF keep = {} THEN <<>>
        ELSE SubSeq(value,
                    CHOOSE i \in keep : \A j \in keep : i <= j,
                    CHOOSE i \in keep : \A j \in keep : j <= i)

\* The Python string of a text.
RECURSIVE Join(_)
Join(value) == IF value = <<>> THEN "" ELSE Head(value) \o Join(Tail(value))

\* The number a text of digits denotes.
RECURSIVE NatOf(_)
NatOf(ds) ==
    IF ds = <<>> THEN 0
    ELSE 10 * NatOf(SubSeq(ds, 1, Len(ds) - 1))
            + (CHOOSE d \in 0 .. 9 : Digits[d + 1] = ds[Len(ds)])

\* The printed content of an int.
RECURSIVE Decimal(_)
Decimal(n) ==
    IF n < 0 THEN "-" \o Decimal(0 - n)
    ELSE IF n < 10 THEN Digits[n + 1]
    ELSE Decimal(n \div 10) \o Digits[(n % 10) + 1]

ValueError == [kind |-> "raise", val |-> "ValueError"]

\* int(value) of a text: whitespace around it is dropped, a sign may lead,
\* the rest must be digits, one at least; anything else raises ValueError.
int(value) ==
    LET s == strip(value)
        signed == s # <<>> /\ s[1] \in {"+", "-"}
        ds == IF signed THEN Tail(s) ELSE s
    IN  IF ds = <<>> \/ \E i \in 1 .. Len(ds) : \A d \in 1 .. 10 : Digits[d] # ds[i]
        THEN ValueError
        ELSE PyInt(Decimal(IF signed /\ s[1] = "-" THEN 0 - NatOf(ds) ELSE NatOf(ds)))

\* str(value) of a text.
str(value) == PyStr(Join(value))

\* value.lower() == "true" with the text stripped first.
to_bool_stripped(value) ==
    PyBool(IF lower(strip(value)) = <<"t", "r", "u", "e">> THEN "True" ELSE "False")

\* value.lower() == "true"
to_bool(value) ==
    PyBool(IF lower(value) = <<"t", "r", "u", "e">> THEN "True" ELSE "False")

\* One round of the loop of convert_values: the converted value, or
\* ValueError.
convert_value(column_type, value) ==
    CASE column_type = "str" -> str(value)
      [] column_type = "int" -> int(value)
      [] column_type = "bool" -> to_bool(value)
      [] OTHER -> value

\* convert_values: the loop runs over column_info and stops with the first
\* raise, IndexError at a column the value list is too short for,
\* ValueError from int(); values beyond the last column are not read.
convert_values(column_info, values) ==
    LET n == Len(column_info)
        bad == {i \in 1 .. n :
                   \/ i > Len(values)
                   \/ convert_value(column_info[i][2], values[i]) = ValueError}
    IN  IF bad = {}
        THEN [error |-> "ok",
              values |-> [i \in 1 .. n |-> convert_value(column_info[i][2], values[i])]]
        ELSE LET i == CHOOSE k \in bad : \A m \in bad : k <= m
             IN  [error |-> IF i > Len(values) THEN "IndexError" ELSE "ValueError",
                  values |-> <<>>]

\* eval(col.column_type): the class of that name, NameError for a name
\* Python does not know.
eval(column_type) ==
    IF column_type \in {"str", "int", "bool"} THEN column_type ELSE "NameError"

\* The exception class of a raise.
ErrorClass(r) ==
    CASE r \in {"DuplicateTable", "UnknownTable", "DuplicateColumn",
                "UnknownColumn", "ArityMismatch", "TypeMismatch"} -> "ValueError"
      [] r = "IndexOutOfRange" -> "IndexError"
      [] OTHER -> r

\* try: ... return success=True / except caught: return success=False; a
\* raise of another class leaves mutate as that exception.
Except(r, caught) ==
    IF r = "ok" THEN "true"
    ELSE IF ErrorClass(r) \in caught THEN "false"
    ELSE ErrorClass(r)

\* Texts to convert.
Texts ==
    {<<>>, <<"1">>, <<"x">>, <<" ", "1">>, <<"-", "1">>,
     <<"t", "r", "u", "e">>, <<"T", "r", "u", "e">>, <<"T", "R", "U", "E">>,
     <<" ", "t", "r", "u", "e">>, <<"t", "r", "u", "e", " ">>,
     <<"\t", "T", "r", "u", "e", " ">>, <<"t", "r", "u">>,
     <<"f", "a", "l", "s", "e">>}

\* The value lists the mutations are called with: shorter and longer than
\* the schemas below, a text that is no number, "true" in upper case and
\* with a blank before it.
TextLists ==
    {<<>>,
     <<<<"1">>>>,
     <<<<"x">>>>,
     <<<<"1">>, <<"T", "r", "u", "e">>>>,
     <<<<"1">>, <<" ", "t", "r", "u", "e">>>>,
     <<<<"1">>, <<"T", "R", "U", "E">>, <<"x">>>>}

\* The column_info arguments of addTable: (column_name, column_type text).
TypedColumnInfos ==
    {<<>>,
     <<<<"a", "int">>>>,
     <<<<"b", "str">>>>,
     <<<<"a", "int">>, <<"b", "bool">>>>,
     <<<<"c", "text">>>>}

NoArgs == [row_index |-> 0, values |-> <<>>]

\* What a mutation has returned: result is the success field, or the class
\* of the exception that left mutate.
Reply(op, t, r, args) == [op |-> op, table |-> t, result |-> r, args |-> args]

Return(op, t, r, args) ==
    /\ last' = Reply(op, t, r, args)
    /\ UNCHANGED <<tables, shares>>

\* The try block of a mutation on table t has ended with outcome out.
Mutate(op, t, out, caught, args) ==
    /\ tables' = WithTable(t, out.column_info, out.rows)
    /\ last' = Reply(op, t, Except(out.result, caught), args)
    /\ UNCHANGED shares

\* AddTableMutation.mutate
AddTableMutation(table_name) ==
    \E column_info \in TypedColumnInfos :
        LET converted_column_info ==
                [i \in 1 .. Len(column_info) |->
                    <<column_info[i][1], eval(column_info[i][2])>>]
        IN  IF \E i \in 1 .. Len(column_info) : eval(column_info[i][2]) = "NameError"
            THEN Return("addTable", table_name, "NameError", NoArgs)
            ELSE IF table_name \in DOMAIN tables
            THEN Return("addTable", table_name,
                        Except("DuplicateTable", {"ValueError"}), NoArgs)
            ELSE /\ tables' = [u \in DOMAIN tables \cup {table_name} |->
                                  IF u = table_name
                                  THEN [column_info |-> converted_column_info,
                                        rows |-> <<>>]
                                  ELSE tables[u]]
                 /\ shares' = shares \cup {{table_name}}
                 /\ last' = Reply("addTable", table_name, "true", NoArgs)

\* RemoveTableMutation.mutate
RemoveTableMutation(table_name) ==
    IF table_name \notin DOMAIN tables
    THEN Return("removeTable", table_name,
                Except("UnknownTable", {"ValueError"}), NoArgs)
    ELSE /\ tables' = [u \in DOMAIN tables \ {table_name} |-> tables[u]]
         /\ shares' = {c \ {table_name} : c \in shares} \ {{}}
         /\ last' = Reply("removeTable", table_name, "true", NoArgs)

\* AddRowMutation.mutate
AddRowMutation(table_name) ==
    \E values \in TextLists :
        LET args == [row_index |-> 0, values |-> values] IN
        IF table_name \notin DOMAIN tables
        THEN Return("addRow", table_name, "false", args)
        ELSE LET dynamic_table == tables[table_name]
                 converted == convert_values(dynamic_table.column_info, values)
             IN  /\ Len(dynamic_table.rows) < MaxRows
                 /\ Mutate("addRow", table_name,
                           IF converted.error # "ok"
                           THEN Raise(dynamic_table, converted.error)
                           ELSE add_row(dynamic_table, converted.values),
                           {"ValueError"}, args)

\* UpdateRowMutation.mutate
UpdateRowMutation(table_name) ==
    \E row_index \in Indexes, values \in TextLists :
        LET args == [row_index |-> row_index, values |-> values] IN
        IF table_name \notin DOMAIN tables
        THEN Return("updateRow", table_name, "false", args)
        ELSE LET dynamic_table == tables[table_name]
                 converted == convert_values(dynamic_table.column_info, values)
             IN  Mutate("updateRow", table_name,
                        IF converted.error # "ok"
                        THEN Raise(dynamic_table, converted.error)
                        ELSE update_row(dynamic_table, row_index, converted.values),
                        {"ValueError", "IndexError"}, args)

\* DeleteRowMutation.mutate
DeleteRowMutation(table_name) ==
    \E row_index \in Indexes :
        LET args == [row_index |-> row_index, values |-> <<>>] IN
        IF table_name \notin DOMAIN tables
        THEN Return("deleteRow", table_name, "false", args)
        ELSE Mutate("deleteRow", table_name,
                    delete_row(tables[table_name], row_index),
                    {"IndexError"}, args)

\* RemoveDuplicatesMutation.mutate
RemoveDuplicatesMutation(table_name) ==
    IF table_name \notin DOMAIN tables
    THEN Return("removeDuplicates", table_name, "false", NoArgs)
    ELSE Mutate("removeDuplicates", table_name,
                remove_duplicates(tables[table_name]),
                {"ValueError"}, NoArgs)

NextMutation ==
    \E table_name \in TableNames :
        \/ AddTableMutation(table_name)
        \/ RemoveTableMutation(table_name)
        \/ AddRowMutation(table_name)
        \/ UpdateRowMutation(table_name)
        \/ DeleteRowMutation(table_name)
        \/ RemoveDuplicatesMutation(table_name)

SpecMutation == Init /\ [][NextMutation]_vars

\* ------------------------------------------------------------- reading
\* Query.resolve_table: the rows of a table as a reader gets them.
resolve_table(table_name) == tables[table_name].rows

\* The table an outcome leaves.
TableOf(out) == [column_info |-> out.column_info, rows |-> out.rows]

\* ------------------------------------------------------------- claims

\* C1: every row of every table has a key set equal to the set of column
\* names of the table's schema.
C1_SchemaRowConsistency ==
    \A t \in DOMAIN tables :
        \A i \in 1 .. Len(tables[t].rows) :
            DOMAIN tables[t].rows[i] = NameSet(tables[t].column_info)

\* C2: a call that raises an error leaves the store as it was.
C2_AllOrNothing ==
    [][last'.result # "ok" => tables' = tables /\ shares' = shares]_vars

\* C3: the column names of every table's schema are pairwise distinct.
C3_ColumnNamesDistinct ==
    \A t \in DOMAIN tables :
        \A i, j \in 1 .. Len(tables[t].column_info) :
            i # j => tables[t].column_info[i][1] # tables[t].column_info[j][1]

\* C4: deleteRow and updateRow with index -1 or index = row count fail
\* with IndexOutOfRange and leave the table unchanged, whatever the row count.
C4_BoundaryIndexFails ==
    \A t \in DOMAIN tables :
        \A i \in {0 - 1, Len(tables[t].rows)} :
            /\ delete_row(tables[t], i) = Raise(tables[t], "IndexOutOfRange")
            /\ \A values \in ValueLists :
                  update_row(tables[t], i, values) = Raise(tables[t], "IndexOutOfRange")

\* C5 as stated: addRow and updateRow with a value list whose length is
\* not the column count fail with ArityMismatch, whatever the index, and
\* leave the table unchanged.
C5_ArityAlways ==
    \A t \in DOMAIN tables :
        \A values \in ValueLists :
            Len(values) # Len(tables[t].column_info) =>
                /\ add_row(tables[t], values) = Raise(tables[t], "ArityMismatch")
                /\ \A i \in Indexes :
                      update_row(tables[t], i, values) = Raise(tables[t], "ArityMismatch")

\* C5 as amended: addRow with a value list whose length is not the column
\* count fails with ArityMismatch; updateRow with such a list fails with
\* ArityMismatch when the index is in [0, row count) and with
\* IndexOutOfRange when it is not; the table is unchanged in every case.
C5_ArityAfterIndex ==
    \A t \in DOMAIN tables :
        \A values \in ValueLists :
            Len(values) # Len(tables[t].column_info) =>
                /\ add_row(tables[t], values) = Raise(tables[t], "ArityMismatch")
                /\ \A i \in Indexes :
                      update_row(tables[t], i, values) =
                          Raise(tables[t],
                                IF 0 <= i /\ i < Len(tables[t].rows)
                                THEN "ArityMismatch" ELSE "IndexOutOfRange")

\* C5 witness: an updateRow at a row of a table that has rows has failed
\* with ArityMismatch.
C5_Witness ==
    /\ last.op = "updateRow"
    /\ last.result = "ArityMismatch"
    /\ Len(tables[last.table].rows) > 0

\* C6: addRow and updateRow with a value list of the right length fail
\* with TypeMismatch when some value's kind is not the kind declared for
\* its column (str, int and bool being three kinds), and every stored
\* value that is not None has the kind declared for its column.
C6_TypeChecked ==
    \A t \in DOMAIN tables :
        LET tbl == tables[t]
            ci == tbl.column_info
        IN  /\ \A values \in ValueLists :
                  (/\ Len(values) = Len(ci)
                   /\ \E i \in 1 .. Len(ci) : values[i].kind # ci[i][2])
                  => /\ add_row(tbl, values) = Raise(tbl, "TypeMismatch")
                     /\ \A i \in 0 .. Len(tbl.rows) - 1 :
                           update_row(tbl, i, values) = Raise(tbl, "TypeMismatch")
            /\ \A i \in 1 .. Len(tbl.rows), j \in 1 .. Len(ci) :
                  (ci[j][1] \in DOMAIN tbl.rows[i] /\ tbl.rows[i][ci[j][1]] # None)
                  => tbl.rows[i][ci[j][1]].kind = ci[j][2]

\* The tuple of a row's typed values in schema-column order.
TypedTuple(row, column_info) ==
    [i \in 1 .. Len(column_info) |->
        IF column_info[i][1] \in DOMAIN row THEN row[column_info[i][1]]
        ELSE [kind |-> "absent", val |-> ""]]

\* The rows from row i on that are the first occurrence of their tuple.
RECURSIVE FirstOccurrences(_, _, _)
FirstOccurrences(rows, column_info, i) ==
    IF i > Len(rows) THEN <<>>
    ELSE LET rest == FirstOccurrences(rows, column_info, i + 1) IN
         IF \E j \in 1 .. i - 1 :
               TypedTuple(rows[j], column_info) = TypedTuple(rows[i], column_info)
         THEN rest
         ELSE <<rows[i]>> \o rest

\* C7: removeDuplicates leaves exactly the rows that are the first
\* occurrence of their tuple of typed values, in their original order.
C7_KeepsFirstOccurrences ==
    \A t \in DOMAIN tables :
        remove_duplicates(tables[t]).rows
            = FirstOccurrences(tables[t].rows, tables[t].column_info, 1)

\* C8: a removeDuplicates made right after a removeDuplicates on the same
\* table leaves the rows and the schema unchanged.
C8_DedupIdempotent ==
    [][(last.op = "removeDuplicates" /\ last'.op = "removeDuplicates"
            /\ last'.table = last.table)
        => tables' = tables]_vars

\* C8 witness: a second removeDuplicates in a row has run on a table that
\* holds two rows or more.
C8_Witness ==
    /\ last.repeated
    /\ last.result = "ok"
    /\ Len(tables[last.table].rows) >= 2

\* C9: for a column name c not in the schema, addColumn(c, type) followed
\* by removeColumn(c) restores the schema and every row.
C9_AddRemoveRoundTrip ==
    \A t \in DOMAIN tables :
        \A c \in Columns :
            c[1] \notin NameSet(tables[t].column_info) =>
                LET added == add_column(tables[t], c[1], c[2])
                    removed == delete_column(TableOf(added), c[1])
                IN  /\ added.result = "ok"
                    /\ removed.result = "ok"
                    /\ TableOf(removed) = tables[t]

\* C10: a successful addRow appends one row that holds the inserted values
\* under the schema's column names and leaves the earlier rows as they
\* were; a failing addRow leaves the rows read back unchanged.
C10_RowsReadBack ==
    \A t \in DOMAIN tables :
        \A values \in ValueLists :
            LET out == add_row(tables[t], values)
                n == Len(resolve_table(t))
                ns == names(tables[t].column_info)
            IN  IF out.result = "ok"
                THEN /\ Len(out.rows) = n + 1
                     /\ \A i \in 1 .. n : out.rows[i] = resolve_table(t)[i]
                     /\ DOMAIN out.rows[n + 1] = NameSet(tables[t].column_info)
                     /\ \A i \in 1 .. Len(values) : out.rows[n + 1][ns[i]] = values[i]
                ELSE out.rows = resolve_table(t)

\* C11: addColumn(name, type) fails with DuplicateColumn when name is in
\* the schema; otherwise (name, type) becomes the last schema entry after
\* the earlier entries in their order, and every row gets the key name
\* with None, its other values and its position unchanged.
C11_AddColumnAppends ==
    \A t \in DOMAIN tables :
        \A c \in Columns :
            LET tbl == tables[t]
                out == add_column(tbl, c[1], c[2])
                n == Len(tbl.column_info)
            IN  IF c[1] \in NameSet(tbl.column_info)
                THEN out = Raise(tbl, "DuplicateColumn")
                ELSE /\ out.result = "ok"
                     /\ Len(out.column_info) = n + 1
                     /\ out.column_info[n + 1] = c
                     /\ \A i \in 1 .. n : out.column_info[i] = tbl.column_info[i]
                     /\ Len(out.rows) = Len(tbl.rows)
                     /\ \A i \in 1 .. Len(tbl.rows) :
                           /\ DOMAIN out.rows[i] = DOMAIN tbl.rows[i] \cup {c[1]}
                           /\ out.rows[i][c[1]] = None
                           /\ \A k \in DOMAIN tbl.rows[i] \ {c[1]} :
                                 out.rows[i][k] = tbl.rows[i][k]

\* C11 witness: an addColumn has succeeded on a table that holds a row and
\* had a column before.
C11_Witness ==
    /\ last.op = "addColumn"
    /\ last.result = "ok"
    /\ Len(tables[last.table].rows) > 0
    /\ Len(tables[last.table].column_info) > 1

\* C12: removeColumn(name) fails with UnknownColumn when name is not in
\* the schema; otherwise name is no longer a column and no row has the key
\* name, the remaining columns keep their relative order and every row
\* keeps its other values and its position.
C12_RemoveColumnRemoves ==
    \A t \in DOMAIN tables :
        \A name \in ColumnNames :
            LET tbl == tables[t]
                out == delete_column(tbl, name)
                kept == SelectSeq(tbl.column_info, LAMBDA c : c[1] # name)
            IN  IF name \notin NameSet(tbl.column_info)
                THEN out = Raise(tbl, "UnknownColumn")
                ELSE /\ out.result = "ok"
                     /\ name \notin NameSet(out.column_info)
                     /\ out.column_info = kept
                     /\ Len(out.rows) = Len(tbl.rows)
                     /\ \A i \in 1 .. Len(tbl.rows) :
                           /\ DOMAIN out.rows[i] = DOMAIN tbl.rows[i] \ {name}
                           /\ \A k \in DOMAIN out.rows[i] :
                                 out.rows[i][k] = tbl.rows[i][k]

\* C13: a successful updateRow(index, values) replaces the row at index by
\* a row that has exactly the schema's column names as keys, each holding
\* the value given at a position of that name (nothing of the old row
\* survives), and leaves the row count, every other row, the order and the
\* schema unchanged.
C13_UpdateReplacesRow ==
    \A t \in DOMAIN tables :
        \A row_index \in Indexes :
            \A values \in ValueLists :
                LET tbl == tables[t]
                    out == update_row(tbl, row_index, values)
                    ns == names(tbl.column_info)
                IN  out.result = "ok" =>
                        /\ out.column_info = tbl.column_info
                        /\ Len(out.rows) = Len(tbl.rows)
                        /\ \A j \in 1 .. Len(tbl.rows) :
                              j # row_index + 1 => out.rows[j] = tbl.rows[j]
                        /\ DOMAIN out.rows[row_index + 1] = NameSet(tbl.column_info)
                        /\ \A k \in NameSet(tbl.column_info) :
                              \E i \in 1 .. Len(ns) :
                                  /\ ns[i] = k
                                  /\ out.rows[row_index + 1][k] = values[i]
                        /\ \A i \in 1 .. Len(ns) :
                              (\A j \in 1 .. Len(ns) : ns[j] = ns[i] => j = i)
                                  => out.rows[row_index + 1][ns[i]] = values[i]

\* C13 witness: an updateRow has succeeded on a table of two rows whose
\* rows now differ.
C13_Witness ==
    /\ last.op = "updateRow"
    /\ last.result = "ok"
    /\ Len(tables[last.table].rows) = 2
    /\ tables[last.table].rows[1] # tables[last.table].rows[2]
    /\ tables[last.table].column_info # <<>>

\* C14: deleteRow(index) with 0 <= index < rowCount removes exactly that
\* row: the count drops by one, the rows before index keep their index,
\* every row at a position j > index moves to j - 1, and the schema is
\* unchanged.
C14_DeleteShiftsRows ==
    \A t \in DOMAIN tables :
        \A row_index \in Indexes :
            LET tbl == tables[t]
                out == delete_row(tbl, row_index)
            IN  (0 <= row_index /\ row_index < Len(tbl.rows)) =>
                    /\ out.result = "ok"
                    /\ out.column_info = tbl.column_info
                    /\ Len(out.rows) = Len(tbl.rows) - 1
                    /\ \A j \in 0 .. Len(tbl.rows) - 1 :
                          /\ j < row_index => out.rows[j + 1] = tbl.rows[j + 1]
                          /\ j > row_index => out.rows[j] = tbl.rows[j + 1]

\* C14 witness: a deleteRow has succeeded and left a row in the table.
C14_Witness ==
    /\ last.op = "deleteRow"
    /\ last.result = "ok"
    /\ Len(tables[last.table].rows) > 0

\* C15: createTable(name, schema) fails with DuplicateTable when a table of
\* that name exists and leaves that table's schema and rows unchanged;
\* otherwise it registers a table with the given schema and zero rows.
C15_CreateTable ==
    [][/\ \A t \in TableNames :
            \A ci \in ColumnInfos :
                add_table(t, ci, NoTable) =>
                    IF t \in DOMAIN tables
                    THEN /\ last'.result = "DuplicateTable"
                         /\ tables' = tables
                    ELSE /\ last'.result = "ok"
                         /\ DOMAIN tables' = DOMAIN tables \cup {t}
                         /\ tables'[t] = [column_info |-> ci, rows |-> <<>>]
                         /\ \A u \in DOMAIN tables : tables'[u] = tables[u]
       /\ last'.op = "createTable" =>
              IF last'.table \in DOMAIN tables
              THEN /\ last'.result = "DuplicateTable"
                   /\ tables' = tables
              ELSE /\ last'.result = "ok"
                   /\ tables'[last'.table].rows = <<>>]_vars

\* C15 witness: a createTable has failed on the name of a table that
\* holds a row.
C15_Witness ==
    /\ last.op = "createTable"
    /\ last.result = "DuplicateTable"
    /\ Len(tables[last.table].rows) > 0

\* C16: dropTable(name) fails with UnknownTable when no table of that name
\* exists and changes nothing; otherwise the name is absent afterwards, and
\* a createTable(name, schema) that follows yields a table with zero rows
\* and exactly the schema given to it.
C16_DropThenCreate ==
    [][/\ \A t \in TableNames :
            remove_table(t) =>
                IF t \notin DOMAIN tables
                THEN /\ last'.result = "UnknownTable"
                     /\ tables' = tables
                ELSE /\ last'.result = "ok"
                     /\ DOMAIN tables' = DOMAIN tables \ {t}
                     /\ \A u \in DOMAIN tables' : tables'[u] = tables[u]
       /\ (last.op = "dropTable" /\ last.result = "ok") =>
              /\ last.table \notin DOMAIN tables
              /\ \A ci \in ColumnInfos :
                    add_table(last.table, ci, NoTable) =>
                        /\ last'.recreated
                        /\ tables'[last.table] = [column_info |-> ci, rows |-> <<>>]
       /\ last'.recreated => tables'[last'.table].rows = <<>>]_vars

\* C16 witness: a table has been created under the name of a table that
\* was dropped just before.
C16_Witness ==
    /\ last.recreated
    /\ tables[last.table].column_info # <<>>

\* C17: every mutation of the access layer, in every store state and for
\* every argument, ends by returning success true or false: no exception
\* leaves mutate.
C17_MutationsAlwaysReply ==
    last.op # "init" => last.result \in {"true", "false"}

\* C18: no two tables share a schema or rows: a call of addColumn,
\* removeColumn, addRow, updateRow, deleteRow or removeDuplicates on one
\* table, and a createTable or dropTable of another name, leaves the
\* schema and the rows of every other table unchanged.
C18_TablesIndependent ==
    [][\A u \in DOMAIN tables :
          (u \in DOMAIN tables' /\ last'.table # u) => tables'[u] = tables[u]]_vars

\* "true" in any letter case.
IsTrueText(value) ==
    /\ Len(value) = 4
    /\ value[1] \in {"t", "T"}
    /\ value[2] \in {"r", "R"}
    /\ value[3] \in {"u", "U"}
    /\ value[4] \in {"e", "E"}

\* The row a successful addRow or updateRow has just written.
WrittenRow ==
    LET rows == tables[last.table].rows
    IN  IF last.op = "addRow" THEN rows[Len(rows)] ELSE rows[last.args.row_index + 1]

\* C19 as stated: the conversion of a text for a bool column gives True
\* exactly when the text without its leading and trailing whitespace is
\* "true" in any letter case, False for every other text, and never fails;
\* the row a successful addRow or updateRow writes holds that value.
C19_BoolTrimmed ==
    /\ \A value \in Texts :
          to_bool(value) = PyBool(IF IsTrueText(strip(value)) THEN "True" ELSE "False")
    /\ (last.op \in {"addRow", "updateRow"} /\ last.result = "true") =>
          LET column_info == tables[last.table].column_info
          IN  \A i \in 1 .. Len(column_info) :
                  column_info[i][2] = "bool" =>
                      WrittenRow[column_info[i][1]]
                          = PyBool(IF IsTrueText(strip(last.args.values[i]))
                                   THEN "True" ELSE "False")

\* C19 as amended: the conversion gives True exactly when the text itself,
\* no whitespace removed, is "true" in any letter case, False for every
\* other text, and never fails; the row a successful addRow or updateRow
\* writes holds that value in its bool column.
C19_BoolIgnoresCaseOnly ==
    /\ \A value \in Texts :
          to_bool(value) = PyBool(IF IsTrueText(value) THEN "True" ELSE "False")
    /\ (last.op \in {"addRow", "updateRow"} /\ last.result = "true") =>
          LET column_info == tables[last.table].column_info
          IN  \A i \in 1 .. Len(column_info) :
                  column_info[i][2] = "bool" =>
                      WrittenRow[column_info[i][1]]
                          = PyBool(IF IsTrueText(last.args.values[i])
                                   THEN "True" ELSE "False")

\* C19 witness: an addRow has stored False for the text " true" given for
\* a bool column.
C19_Witness ==
    /\ last.op = "addRow"
    /\ last.result = "true"
    /\ \E i \in 1 .. Len(tables[last.table].column_info) :
          /\ tables[last.table].column_info[i][2] = "bool"
          /\ last.args.values[i] = <<" ", "t", "r", "u", "e">>
          /\ WrittenRow[tables[last.table].column_info[i][1]] = PyBool("False")

\* C20: a mutation that returns success false leaves the store exactly as
\* it was, and deleteRow returns success true only when exactly one row
\* was removed, the one at the requested index, which is not negative.
C20_FalseMeansUnchanged ==
    [][/\ last'.result = "false" => (tables' = tables /\ shares' = shares)
       /\ (last'.op = "deleteRow" /\ last'.result = "true") =>
              LET row_index == last'.args.row_index
                  rows == tables[last'.table].rows
              IN  /\ 0 <= row_index
                  /\ row_index < Len(rows)
                  /\ tables'[last'.table].rows = DelAt(rows, row_index + 1)]_vars
====
